---- MODULE Spec2Model ----
(***************************************************************************)
(* examples/python/demo.py of glider-api: a top-level script that imports  *)
(* glider_api, constructs one Display and calls set_mode three times.      *)
(*                                                                         *)
(* The script is modelled as data (Script, one record per statement) and   *)
(* an interpreter with one action per kind of statement.  The display the  *)
(* script drives is modelled by the mode in force at each point of a set   *)
(* of sample points of the 1600x1200 canvas: the points within Halo of     *)
(* every rectangle edge the script names, of the canvas border and of the  *)
(* canvas centre lines.                                                    *)
(***************************************************************************)
EXTENDS Integers, Sequences, FiniteSets

VARIABLES
    pc,        \* index in Script of the next statement to run; Done past the end
    order,     \* order[i]: the statement run at position i (source order in Spec)
    imported,  \* whether `from glider_api import *` has run
    d,         \* the handle bound to the name d, NoHandle before line 3
    log,       \* the calls made into glider_api so far, oldest first
    executed,  \* executed[i]: how many times statement i has run
    screen0,   \* the mode at each sample point before the script started
    screen     \* the mode in force at each sample point

vars == <<pc, order, imported, d, log, executed, screen0, screen>>

----------------------------------------------------------------------------
(* Bounds of the model *)

\* Sample points lie within Halo pixels of an edge.
Halo == 1

\* Display() may return any of MaxHandles distinct handles.
MaxHandles == 2

----------------------------------------------------------------------------
(* The values the script names *)

\* The largest horizontal coordinate the script names (lines 13 and 18).
CanvasW == 1600

\* The largest vertical coordinate the script names (lines 8 and 18).
CanvasH == 1200

\* The name d before line 3 binds it.
NoHandle == 0

Handles == 1..MaxHandles

\* Rect(l, t, r, b): a rectangle value with four bounds (left, top, right, bottom).
Rect(l, t, r, b) == [left |-> l, top |-> t, right |-> r, bottom |-> b]

\* The members of Mode the script names, and one standing for any other member.
Modes == {"FastMonoNoDither", "AutoNoDither", "FastMonoBayer", "OtherMode"}

\* Line 8: d.set_mode(Mode.FastMonoNoDither, Rect(0, 0, 800, 1200))
\* The mode of line 18 pasted into line 8.
ModeLeft_Pasted == "FastMonoBayer"

ModeLeft == "FastMonoNoDither"

\* The left rectangle taking the whole canvas.
RectLeft_Whole == Rect(0, 0, 1600, 1200)

RectLeft == Rect(0, 0, 800, 1200)

\* Line 13: d.set_mode(Mode.AutoNoDither, Rect(800, 0, 1600, 600))
ModeRightTop == "AutoNoDither"

\* The right-top rectangle reaching down to the bottom of the canvas.
RectRightTop_Tall == Rect(800, 0, 1600, 1200)

RectRightTop == Rect(800, 0, 1600, 600)

\* Line 18: d.set_mode(Mode.FastMonoBayer, Rect(800, 600, 1600, 1200))
\* The mode of line 13 pasted into line 18.
ModeRightBottom_Pasted == "AutoNoDither"

ModeRightBottom == "FastMonoBayer"

\* The right-bottom rectangle given as (left, top, width, height) past its corner.
RectRightBottom_Outside == Rect(800, 600, 2400, 1800)

\* The right-bottom rectangle one row short of the bottom of the canvas.
RectRightBottom_Short == Rect(800, 600, 1600, 1199)

RectRightBottom == Rect(800, 600, 1600, 1200)

NoRect == Rect(0, 0, 0, 0)

\* The statements of demo.py in source order.
Script ==
    << [line |-> 1,  kind |-> "import",    mode |-> "",              rect |-> NoRect],
       [line |-> 3,  kind |-> "construct", mode |-> "",              rect |-> NoRect],
       [line |-> 8,  kind |-> "set_mode",  mode |-> ModeLeft,        rect |-> RectLeft],
       [line |-> 13, kind |-> "set_mode",  mode |-> ModeRightTop,    rect |-> RectRightTop],
       [line |-> 18, kind |-> "set_mode",  mode |-> ModeRightBottom, rect |-> RectRightBottom] >>

NStmts == Len(Script)

Done == NStmts + 1

\* The fourth statement ending the run.
NextPc_Skip(i) == IF i = 4 THEN Done ELSE i + 1

\* A statement falls through to the next one: the script has no control flow.
NextPc(i) == i + 1

\* The last two statements exchanged.
SourceOrder_Swapped ==
    [i \in 1..NStmts |-> IF i = 4 THEN 5 ELSE IF i = 5 THEN 4 ELSE i]

\* The order of the source.
SourceOrder == [i \in 1..NStmts |-> i]

\* The orders that permute the set_mode statements among themselves.
Orders ==
    {o \in [1..NStmts -> 1..NStmts] :
        /\ \A i, j \in 1..NStmts : o[i] = o[j] => i = j
        /\ \A i \in 1..NStmts : Script[i].kind # "set_mode" => o[i] = i}

----------------------------------------------------------------------------
(* The display *)

Abs(n) == IF n < 0 THEN -n ELSE n

SetModeRects == {Script[i].rect : i \in {j \in 1..NStmts : Script[j].kind = "set_mode"}}

XEdges == {0, CanvasW \div 2, CanvasW} \cup {r.left : r \in SetModeRects}
              \cup {r.right : r \in SetModeRects}

YEdges == {0, CanvasH \div 2, CanvasH} \cup {r.top : r \in SetModeRects}
              \cup {r.bottom : r \in SetModeRects}

XS == {x \in 0..(CanvasW - 1) : \E e \in XEdges : Abs(x - e) <= Halo}

YS == {y \in 0..(CanvasH - 1) : \E e \in YEdges : Abs(y - e) <= Halo}

\* The sample points of the canvas, as <<x, y>>.
Points == XS \X YS

\* A rectangle holds the points from its left and top bounds up to, not
\* including, its right and bottom bounds.
InRect(p, r) == /\ r.left <= p[1] /\ p[1] < r.right
                /\ r.top <= p[2] /\ p[2] < r.bottom

\* set_mode(mode, rect): assign mode to every point of rect, leave the others.
SetModeEffect(s, mode, rect) ==
    [p \in Points |-> IF InRect(p, rect) THEN mode ELSE s[p]]

\* What an earlier client may have left on the display: one mode everywhere,
\* then one set_mode over a half, a quadrant or the whole canvas.
PriorRects ==
    {Rect(l, t, r, b) : l, r \in {0, CanvasW \div 2, CanvasW},
                        t, b \in {0, CanvasH \div 2, CanvasH}}

PriorScreens ==
    {SetModeEffect([p \in Points |-> m0], m1, r) :
        m0 \in Modes, m1 \in Modes,
        r \in {q \in PriorRects : q.left < q.right /\ q.top < q.bottom}}

----------------------------------------------------------------------------
(* The calls into glider_api *)

DisplayCall(h) ==
    [op |-> "Display", self |-> NoHandle, mode |-> "", rect |-> NoRect, ret |-> h]

SetModeCall(h, mode, rect) ==
    [op |-> "set_mode", self |-> h, mode |-> mode, rect |-> rect, ret |-> NoHandle]

\* The positions of the set_mode calls in a log.
SetModeIdx(l) == {i \in 1..Len(l) : l[i].op = "set_mode"}

----------------------------------------------------------------------------
(* The script *)

InitCommon ==
    /\ pc = 1
    /\ imported = FALSE
    /\ d = NoHandle
    /\ log = << >>
    /\ executed = [i \in 1..NStmts |-> 0]
    /\ screen0 \in PriorScreens
    /\ screen = screen0

Init == InitCommon /\ order = SourceOrder

InitAnyOrder == InitCommon /\ order \in Orders

Ran(i) == /\ executed' = [executed EXCEPT ![i] = @ + 1]
          /\ pc' = NextPc(pc)

\* Line 1: from glider_api import *
Import ==
    /\ pc \in 1..NStmts
    /\ Script[order[pc]].kind = "import"
    /\ imported' = TRUE
    /\ Ran(order[pc])
    /\ UNCHANGED <<order, d, log, screen0, screen>>

\* Line 3: d = Display()
Construct ==
    /\ pc \in 1..NStmts
    /\ Script[order[pc]].kind = "construct"
    /\ imported
    /\ \E h \in Handles :
          /\ d' = h
          /\ log' = Append(log, DisplayCall(h))
    /\ Ran(order[pc])
    /\ UNCHANGED <<order, imported, screen0, screen>>

\* Lines 8, 13, 18: d.set_mode(mode, rect)
SetMode ==
    /\ pc \in 1..NStmts
    /\ Script[order[pc]].kind = "set_mode"
    /\ imported
    /\ d # NoHandle
    /\ log' = Append(log, SetModeCall(d, Script[order[pc]].mode, Script[order[pc]].rect))
    /\ screen' = SetModeEffect(screen, Script[order[pc]].mode, Script[order[pc]].rect)
    /\ Ran(order[pc])
    /\ UNCHANGED <<order, imported, d, screen0>>

Next == Import \/ Construct \/ SetMode

\* demo.py as written.
Spec == Init /\ [][Next]_vars

\* demo.py as written, every call into glider_api returning.
FairSpec == Init /\ [][Next]_vars /\ WF_vars(Next)

\* demo.py with its three set_mode statements in any of their six orders.
SpecAnyOrder == InitAnyOrder /\ [][Next]_vars

----------------------------------------------------------------------------
(* Helpers of the properties *)

IsPrefix(a, b) == /\ Len(a) <= Len(b)
                  /\ \A i \in 1..Len(a) : a[i] = b[i]

Max(a, b) == IF a >= b THEN a ELSE b

Min(a, b) == IF a <= b THEN a ELSE b

\* Two rectangles share a region of positive area.
Overlap(a, b) == /\ Max(a.left, b.left) < Min(a.right, b.right)
                 /\ Max(a.top, b.top) < Min(a.bottom, b.bottom)

Area(r) == (r.right - r.left) * (r.bottom - r.top)

RECURSIVE SumArea(_, _)
SumArea(l, n) ==
    IF n = 0 THEN 0
    ELSE SumArea(l, n - 1) + (IF l[n].op = "set_mode" THEN Area(l[n].rect) ELSE 0)

\* The set_mode calls of a log that assigned a mode to point p.
AssignedBy(l, p) == {i \in SetModeIdx(l) : InRect(p, l[i].rect)}

\* The screen after the set_mode statements ran in order o from screen s.
RECURSIVE RunInOrder(_, _, _)
RunInOrder(s, o, n) ==
    IF n = 0 THEN s
    ELSE IF Script[o[n]].kind = "set_mode"
         THEN SetModeEffect(RunInOrder(s, o, n - 1), Script[o[n]].mode, Script[o[n]].rect)
         ELSE RunInOrder(s, o, n - 1)

----------------------------------------------------------------------------
(* C1 *)

\* The calls the script is said to make, on handle h.
C1_Expected(h) ==
    << DisplayCall(h),
       SetModeCall(h, "FastMonoNoDither", Rect(0, 0, 800, 1200)),
       SetModeCall(h, "AutoNoDither", Rect(800, 0, 1600, 600)),
       SetModeCall(h, "FastMonoBayer", Rect(800, 600, 1600, 1200)) >>

\* C1: at every moment the calls made so far are the first calls of: one
\* Display() and then, on the handle it returned, set_mode(FastMonoNoDither,
\* Rect(0,0,800,1200)), set_mode(AutoNoDither, Rect(800,0,1600,600)),
\* set_mode(FastMonoBayer, Rect(800,600,1600,1200)); a finished run has made
\* all four and nothing else, and d is the handle Display() returned.
C1_CallSequence ==
    /\ \E h \in Handles : IsPrefix(log, C1_Expected(h))
    /\ log # << >> => d = log[1].ret
    /\ log = << >> => d = NoHandle
    /\ pc = Done => Len(log) = 4

C1_Witness ==
    /\ pc = Done
    /\ Len(log) = 4
    /\ log[1].op = "Display"
    /\ log[4].op = "set_mode" /\ log[4].self = d /\ d \in Handles

----------------------------------------------------------------------------
(* C2 *)

\* C2: no two of the rectangles passed to set_mode so far share a region of
\* positive area, and no sample point lies inside two of them.
C2_NonOverlapping ==
    /\ \A i, j \in SetModeIdx(log) : i < j => ~Overlap(log[i].rect, log[j].rect)
    /\ \A p \in Points : Cardinality(AssignedBy(log, p)) <= 1

C2_Witness ==
    /\ pc = Done
    /\ Cardinality(SetModeIdx(log)) = 3
    /\ \A i, j \in SetModeIdx(log) : i # j => log[i].rect # log[j].rect

----------------------------------------------------------------------------
(* C3 *)

\* C3: once the script has run, every sample point with 0 <= x < 800 is in
\* FastMonoNoDither, every one with 800 <= x < 1600 and 0 <= y < 600 is in
\* AutoNoDither, and every one with 800 <= x < 1600 and 600 <= y < 1200 is in
\* FastMonoBayer, whatever the display showed before.
C3_ModesAsCommented ==
    pc = Done =>
        \A p \in Points :
            /\ (0 <= p[1] /\ p[1] < 800 /\ 0 <= p[2] /\ p[2] < 1200)
                  => screen[p] = "FastMonoNoDither"
            /\ (800 <= p[1] /\ p[1] < 1600 /\ 0 <= p[2] /\ p[2] < 600)
                  => screen[p] = "AutoNoDither"
            /\ (800 <= p[1] /\ p[1] < 1600 /\ 600 <= p[2] /\ p[2] < 1200)
                  => screen[p] = "FastMonoBayer"

C3_Witness ==
    /\ pc = Done
    /\ screen0[<<799, 0>>] = "OtherMode" /\ screen[<<799, 0>>] = "FastMonoNoDither"
    /\ screen0[<<800, 599>>] = "OtherMode" /\ screen[<<800, 599>>] = "AutoNoDither"
    /\ screen0[<<800, 600>>] = "OtherMode" /\ screen[<<800, 600>>] = "FastMonoBayer"

----------------------------------------------------------------------------
(* C4 *)

\* C4: every rectangle passed to set_mode so far has its left and right
\* bounds in 0..1600 and its top and bottom bounds in 0..1200.
C4_RectsInsideCanvas ==
    \A i \in SetModeIdx(log) :
        /\ log[i].rect.left \in 0..1600
        /\ log[i].rect.right \in 0..1600
        /\ log[i].rect.top \in 0..1200
        /\ log[i].rect.bottom \in 0..1200

C4_Witness ==
    /\ pc = Done
    /\ \E i \in SetModeIdx(log) : log[i].rect.left = 0 /\ log[i].rect.top = 0
    /\ \E i \in SetModeIdx(log) : log[i].rect.right = 1600 /\ log[i].rect.bottom = 1200

----------------------------------------------------------------------------
(* C5 *)

\* C5: every step runs the statement at pc, which has not run before, and
\* moves to the statement after it; and the run reaches its end, where each
\* statement has run exactly once, the last call made is the third set_mode
\* and no statement is left to run.
C5_StraightLine ==
    /\ [][ /\ pc \in 1..NStmts
           /\ executed[pc] = 0
           /\ executed' = [executed EXCEPT ![pc] = 1]
           /\ pc' = pc + 1 ]_vars
    /\ <>( /\ pc = Done
           /\ \A i \in 1..NStmts : executed[i] = 1
           /\ Cardinality(SetModeIdx(log)) = 3
           /\ log[Len(log)].op = "set_mode"
           /\ ~ENABLED Next )

C5_Witness ==
    /\ pc = Done
    /\ \A i \in 1..NStmts : executed[i] = 1
    /\ Len(log) = NStmts - 1
    /\ ~ENABLED Next

----------------------------------------------------------------------------
(* C6 *)

\* C6: once the script has run, every sample point of the canvas lies in
\* exactly one of the rectangles passed to set_mode and is in that call's
\* mode; the rectangles lie inside the canvas, no two overlap and their
\* areas add up to the area of the canvas, 1600 x 1200.
C6_RectsCoverCanvas ==
    pc = Done =>
        /\ \A p \in Points :
              /\ Cardinality(AssignedBy(log, p)) = 1
              /\ \A i \in AssignedBy(log, p) : screen[p] = log[i].mode
        /\ \A i \in SetModeIdx(log) :
              /\ 0 <= log[i].rect.left /\ log[i].rect.left <= log[i].rect.right
              /\ log[i].rect.right <= 1600
              /\ 0 <= log[i].rect.top /\ log[i].rect.top <= log[i].rect.bottom
              /\ log[i].rect.bottom <= 1200
        /\ \A i, j \in SetModeIdx(log) : i < j => ~Overlap(log[i].rect, log[j].rect)
        /\ SumArea(log, Len(log)) = 1600 * 1200

C6_Witness ==
    /\ pc = Done
    /\ SumArea(log, Len(log)) = 1920000
    /\ \A p \in Points : screen0[p] = "OtherMode" /\ screen[p] # "OtherMode"

----------------------------------------------------------------------------
(* C7 *)

\* C7: in whichever of their six orders the three set_mode statements run,
\* no call changes the mode of a sample point that an earlier call of the run
\* assigned, and the run ends with the screen that the source order gives.
C7_OrderIndependent ==
    [][ /\ \A p \in Points : AssignedBy(log, p) # {} => screen'[p] = screen[p]
        /\ pc' = Done => screen' = RunInOrder(screen0, SourceOrder, NStmts) ]_vars

C7_Witness ==
    /\ pc = Done
    /\ order # SourceOrder
    /\ order[3] = 5
    /\ screen # screen0
    /\ screen = RunInOrder(screen0, SourceOrder, NStmts)

----------------------------------------------------------------------------
(* C8 *)

\* C8: every rectangle passed to set_mode so far has left < right and
\* top < bottom, and no two set_mode calls made so far name the same mode.
C8_WellFormedDistinct ==
    /\ \A i \in SetModeIdx(log) :
          /\ log[i].rect.left < log[i].rect.right
          /\ log[i].rect.top < log[i].rect.bottom
    /\ \A i, j \in SetModeIdx(log) : i # j => log[i].mode # log[j].mode

C8_Witness ==
    /\ pc = Done
    /\ Cardinality({log[i].mode : i \in SetModeIdx(log)}) = 3
    /\ \A i \in SetModeIdx(log) : Area(log[i].rect) > 0

====
